---------------------------- MODULE Spec2Model ----------------------------
(***************************************************************************)
(* A model of decode.py: dictionary-driven substitution over a document    *)
(* with protected regions (tags and comments).                             *)
(*                                                                         *)
(* A text is a sequence of one-character strings.  Positions are 1-based:  *)
(* position p of the model is index p-1 of the Python string, and the      *)
(* position Len(s)+1 is the end of the string.                             *)
(*                                                                         *)
(* Each function of the program is one action: it reads its arguments from *)
(* the state (fn, text, transdict, reverse) and leaves pc = "return" with  *)
(* the value in result, or pc = "raise" with the exception in err.  The    *)
(* regular expressions of the program are modelled by what Python's        *)
(* backtracking matcher does with them (Python 3.7 and later, where an     *)
(* empty match may follow a non-empty one).                                *)
(***************************************************************************)
EXTENDS Naturals, Sequences, FiniteSets

VARIABLES
    fn,         \* the function called
    text,       \* its text argument (text / dict_data)
    transdict,  \* translate's dictionary: pairs [k, v] in insertion order
    reverse,    \* get_dictionary's flag
    pc,         \* "call", "return" or "raise"
    matches,    \* translate: the list re.findall returned
    result,     \* the value returned
    err,        \* the exception raised, "" when none
    lhs,        \* remove_comments(translate(text, d)), once evaluated
    rhs         \* translate(remove_comments(text), d), once evaluated

vars == <<fn, text, transdict, reverse, pc, matches, result, err, lhs, rhs>>

---------------------------------------------------------------------------
(* Bounds of the inputs.                                                   *)

MaxDocLen == 4

MaxPlainLen == 4

MaxLitLen == 3

MaxKeyLen == 2

MaxDictLen == 4

MaxCommentLen == 5

MaxCommuteLen == 4

MaxTagTokens == 4

MaxInnerLen == 4

---------------------------------------------------------------------------
(* Generic helpers on texts.                                               *)

Min(S) == CHOOSE x \in S : \A y \in S : x <= y

Max(S) == CHOOSE x \in S : \A y \in S : x >= y

Docs(A, n) == UNION { [1..k -> A] : k \in 0..n }

\* s[a..b-1]: the Python slice s[a-1:b-1]
Slice(s, a, b) == SubSeq(s, a, b - 1)

\* First position >= from holding character c, or 0.
Find(s, c, from) ==
    LET P == { p \in from..Len(s) : s[p] = c }
    IN  IF P = {} THEN 0 ELSE Min(P)

RECURSIVE Concat(_)
Concat(ss) == IF ss = <<>> THEN <<>> ELSE Head(ss) \o Concat(Tail(ss))

\* The outcome of a call that may raise: ok with the value, or the error.
Ok(v) == [ok |-> TRUE, v |-> v, e |-> ""]

Raise(e) == [ok |-> FALSE, v |-> <<>>, e |-> e]

---------------------------------------------------------------------------
(* translate: the key pattern (line 114).                                  *)

Keys(d) == [i \in 1..Len(d) |-> d[i].k]

\* Insert key k into a list sorted by descending length, after every key at
\* least as long: sorted() is stable, also with reverse=True.
RECURSIVE InsertByLen(_, _)
InsertByLen(ks, k) ==
    IF ks = <<>> THEN <<k>>
    ELSE IF Len(Head(ks)) >= Len(k) THEN <<Head(ks)>> \o InsertByLen(Tail(ks), k)
    ELSE <<k>> \o ks

RECURSIVE SortedFrom(_, _)
SortedFrom(ks, acc) ==
    IF ks = <<>> THEN acc ELSE SortedFrom(Tail(ks), InsertByLen(acc, Head(ks)))

\* A plausible slip: the keys joined in insertion order.
SortedKeysUnsorted(ks) == ks

\* sorted(transdict.keys(), key=len, reverse=True)
SortedKeys(ks) == SortedFrom(ks, <<>>)

\* '|'.join(...): the alternatives of the pattern, in order.  The join of no
\* key is the empty pattern, one alternative matching the empty string.
Alternatives(d) == IF d = <<>> THEN << <<>> >> ELSE SortedKeys(Keys(d))

\* The keys are not escaped: "." is the wildcard (any character but a line
\* break) and a "(" opens a group that is never closed.
Wild == "."

OpenParen == "("

\* re.compile raises re.error ("missing ), unterminated subpattern").
CompileFails(d) == \E i \in 1..Len(d) : \E j \in 1..Len(d[i].k) : d[i].k[j] = OpenParen

PatCharMatches(pc_, c) == IF pc_ = Wild THEN c # "\n" ELSE pc_ = c

\* Alternative alt matches s at position i.
AltMatchesAt(alt, s, i) ==
    /\ i + Len(alt) - 1 <= Len(s)
    /\ \A j \in 1..Len(alt) : PatCharMatches(alt[j], s[i + j - 1])

\* The alternative the matcher takes at position i: the first one, in order,
\* that matches (and is not empty when the match must advance); 0 if none.
FirstAlt(alts, s, i, mustAdvance) ==
    LET ok == { a \in 1..Len(alts) :
                  /\ AltMatchesAt(alts[a], s, i)
                  /\ (mustAdvance => Len(alts[a]) > 0) }
    IN  IF ok = {} THEN 0 ELSE Min(ok)

\* transdict[l.group()]: the value, or KeyError.
Lookup(d, key) ==
    LET I == { i \in 1..Len(d) : d[i].k = key }
    IN  IF I = {} THEN Raise("KeyError") ELSE Ok(d[CHOOSE i \in I : TRUE].v)

\* ciphers_pattern.sub(lambda l: transdict[l.group()], s) from position i,
\* the text substituted so far being acc.  After an empty match the next
\* match must advance, and a position where nothing matches is copied.
RECURSIVE SubFrom(_, _, _, _, _, _)
SubFrom(d, alts, s, i, mustAdvance, acc) ==
    IF i > Len(s) + 1 THEN Ok(acc)
    ELSE LET a == FirstAlt(alts, s, i, mustAdvance) IN
         IF a = 0
         THEN IF i > Len(s) THEN Ok(acc)
              ELSE SubFrom(d, alts, s, i + 1, FALSE, Append(acc, s[i]))
         ELSE LET n == Len(alts[a])
                  r == Lookup(d, Slice(s, i, i + n))
              IN  IF ~r.ok THEN r
                  ELSE SubFrom(d, alts, s, i + n, n = 0, acc \o r.v)

Sub(d, s) == SubFrom(d, Alternatives(d), s, 1, FALSE, <<>>)

---------------------------------------------------------------------------
(* translate: the segmenting pattern (line 117), under re.MULTILINE.  It   *)
(* is a run of characters other than "<", "[" and "#" (group 1), followed  *)
(* by group 2: any number of closed tags, then an optional comment.        *)

Opening == {"<", "[", "#"}

Closer(c) == IF c = "<" THEN ">" ELSE "]"

\* ([^<\[#]*) from position i, greedy: the position after the run.
RunEnd(s, i) ==
    LET P == { p \in i..Len(s) : s[p] \in Opening }
    IN  IF P = {} THEN Len(s) + 1 ELSE Min(P)

\* A variant whose tags end on the line they start on, as a pattern that
\* kept [^>]* and [^\]]* from taking a line break would make them.
TagEndOnLine(s, i) ==
    IF i > Len(s) \/ s[i] \notin {"<", "["} THEN 0
    ELSE LET c == Find(s, Closer(s[i]), i + 1)
         IN  IF c = 0 \/ (\E r \in i..c : s[r] = "\n") THEN 0 ELSE c + 1

\* (?:<[^>]*>)|(?:\[[^\]]*\]) at position i: the position after the first
\* closing bracket (a line break is no obstacle to [^>]*), or 0 when the
\* character is no opening bracket or no closing bracket follows.
TagEnd(s, i) ==
    IF i > Len(s) \/ s[i] \notin {"<", "["} THEN 0
    ELSE LET c == Find(s, Closer(s[i]), i + 1)
         IN  IF c = 0 THEN 0 ELSE c + 1

\* (...)* from position i, greedy: the position after the last tag of the run.
RECURSIVE TagsEnd(_, _)
TagsEnd(s, i) == IF TagEnd(s, i) = 0 THEN i ELSE TagsEnd(s, TagEnd(s, i))

\* (#.*$)? at position i: "." stops at the line break, where "$" matches.
CommentEnd(s, i) ==
    IF i > Len(s) \/ s[i] # "#" THEN i
    ELSE LET n == Find(s, "\n", i)
         IN  IF n = 0 THEN Len(s) + 1 ELSE n

\* The match of the pattern at position i: group 1 is [start, mid), group 2
\* is [mid, end).  Every part is optional, so the pattern matches at every
\* position, and the greedy choice is the only non-empty one.
MatchAt(s, i) ==
    LET m == RunEnd(s, i)
    IN  [start |-> i, mid |-> m, end |-> CommentEnd(s, TagsEnd(s, m))]

Group0(s, m) == Slice(s, m.start, m.mid)

Group1(s, m) == Slice(s, m.mid, m.end)

\* re.findall from position i.  After an empty match the matcher refuses an
\* empty match at the same position and moves one character on: that
\* character is part of no match.
RECURSIVE FindAllFrom(_, _, _, _)
FindAllFrom(s, i, mustAdvance, acc) ==
    IF i > Len(s) + 1 THEN acc
    ELSE LET m == MatchAt(s, i) IN
         IF m.end = i /\ mustAdvance
         THEN FindAllFrom(s, i + 1, FALSE, acc)
         ELSE FindAllFrom(s, m.end, m.end = i, Append(acc, m))

FindAll(s) == FindAllFrom(s, 1, FALSE, <<>>)

\* A variant that substitutes in the whole match.
PieceWholeMatch(d, s, m) == Sub(d, Group0(s, m) \o Group1(s, m))

\* Lines 125-126: the translated group 1 followed by the unchanged group 2.
Piece(d, s, m) ==
    LET r == Sub(d, Group0(s, m))
    IN  IF r.ok THEN Ok(r.v \o Group1(s, m)) ELSE r

\* The loop of lines 123-126 over the matches ms, output so far being out.
RECURSIVE Loop(_, _, _, _)
Loop(d, s, ms, out) ==
    IF ms = <<>> THEN Ok(out)
    ELSE LET r == Piece(d, s, Head(ms))
         IN  IF r.ok THEN Loop(d, s, Tail(ms), out \o r.v) ELSE r

\* translate(text, transdict)
TranslateOp(s, d) ==
    IF CompileFails(d) THEN Raise("re.error") ELSE Loop(d, s, FindAll(s), <<>>)

---------------------------------------------------------------------------
(* The calls.                                                              *)

NoDict == <<>>

\* The state of a call of function f on text t with dictionary d.
Call(f, t, d, r) ==
    /\ fn = f
    /\ text = t
    /\ transdict = d
    /\ reverse = r
    /\ pc = "call"
    /\ matches = <<>>
    /\ result = <<>>
    /\ err = ""
    /\ lhs = Raise("not evaluated")
    /\ rhs = Raise("not evaluated")

\* The call ends: with the value of outcome r, or with its exception.
Finish(r) ==
    /\ pc' = IF r.ok THEN "return" ELSE "raise"
    /\ result' = r.v
    /\ err' = r.e

\* translate(text, transdict), lines 102-127.
Translate ==
    /\ fn = "translate"
    /\ pc = "call"
    /\ matches' = IF CompileFails(transdict) THEN <<>> ELSE FindAll(text)
    /\ Finish(TranslateOp(text, transdict))
    /\ UNCHANGED <<fn, text, transdict, reverse, lhs, rhs>>

---------------------------------------------------------------------------
(* Documents with tags and comments, translated with a one-key dictionary. *)

DocAlphabet == {"a", "<", ">", "[", "]", "#", "\n"}

Pair(k, v) == [k |-> k, v |-> v]

\* test_decode.py line 61
TagsDict == << Pair(<<"a">>, <<"b">>) >>

DocDicts ==
    { TagsDict,
      << Pair(<<"a">>, <<"b">>), Pair(<<">">>, <<"a">>), Pair(<<"]", "a">>, <<>>) >>,
      << Pair(<<>>, <<"x">>), Pair(<<"a">>, <<"b">>) >> }

InitTranslate ==
    \E t \in Docs(DocAlphabet, MaxDocLen), d \in DocDicts :
        Call("translate", t, d, FALSE)

NextTranslate == Translate

SpecTranslate == InitTranslate /\ [][NextTranslate]_vars

---------------------------------------------------------------------------
(* What the documentation calls protected: a closed tag, from an opening   *)
(* bracket to the first closing bracket after it, and a comment, from "#"  *)
(* to the end of its line.  ProtectedSpans reads the document once, left   *)
(* to right, and owes nothing to the pattern of translate.                 *)

RECURSIVE ProtectedSpansFrom(_, _)
ProtectedSpansFrom(s, i) ==
    IF i > Len(s) THEN <<>>
    ELSE IF s[i] = "<" /\ \E q \in i+1..Len(s) : s[q] = ">"
    THEN LET q == Min({ q \in i+1..Len(s) : s[q] = ">" })
         IN  << [from |-> i, to |-> q] >> \o ProtectedSpansFrom(s, q + 1)
    ELSE IF s[i] = "[" /\ \E q \in i+1..Len(s) : s[q] = "]"
    THEN LET q == Min({ q \in i+1..Len(s) : s[q] = "]" })
         IN  << [from |-> i, to |-> q] >> \o ProtectedSpansFrom(s, q + 1)
    ELSE IF s[i] = "#"
    THEN LET q == Max({ q \in i..Len(s) : \A r \in i..q : s[r] # "\n" })
         IN  << [from |-> i, to |-> q] >> \o ProtectedSpansFrom(s, q + 1)
    ELSE ProtectedSpansFrom(s, i + 1)

ProtectedSpans(s) == ProtectedSpansFrom(s, 1)

ProtectedPositions(s) ==
    UNION { ProtectedSpans(s)[k].from .. ProtectedSpans(s)[k].to :
              k \in 1..Len(ProtectedSpans(s)) }

\* The positions of the document that fall in group 2 of a match.
Group1Positions == UNION { matches[k].mid .. matches[k].end - 1 : k \in 1..Len(matches) }

\* The positions of the document that fall in a match at all.
MatchedPositions == UNION { matches[k].start .. matches[k].end - 1 : k \in 1..Len(matches) }

Returned(f) == fn = f /\ pc = "return"

\* The length of the output up to the protected piece of match k.
RECURSIVE OffsetOf(_)
OffsetOf(k) ==
    (IF k = 1 THEN 0 ELSE OffsetOf(k - 1) + Len(Group1(text, matches[k - 1])))
    + Len(Sub(transdict, Group0(text, matches[k])).v)

KeyOccurs(s, d) ==
    \E i \in 1..Len(d), p \in 1..Len(s) + 1 :
        p + Len(d[i].k) - 1 <= Len(s) /\ Slice(s, p, p + Len(d[i].k)) = d[i].k

\* C1 (as claimed): the pieces of the scan steps of translate, translatable
\* then protected, concatenated in order, are the document, character for
\* character; and a document in which no key occurs is returned as it is.
RoundTripSegmentation ==
    Returned("translate") =>
        /\ Concat([k \in 1..Len(matches) |->
                     Group0(text, matches[k]) \o Group1(text, matches[k])]) = text
        /\ (~KeyOccurs(text, transdict) => result = text)

\* C2: translate keeps every protected span.  The positions it copies
\* unchanged (group 2 of its matches) are exactly the positions of the
\* closed tags and of the comments of the document, and the text of each of
\* them stands in the output, in order, where the copy put it; keys are only
\* looked for in the rest.
ProtectedInvariance ==
    Returned("translate") =>
        /\ Group1Positions = ProtectedPositions(text)
        /\ \A k \in 1..Len(matches) :
              Slice(result, OffsetOf(k) + 1,
                    OffsetOf(k) + 1 + Len(Group1(text, matches[k])))
                = Group1(text, matches[k])
        /\ Len(result) = IF matches = <<>> THEN 0
                         ELSE OffsetOf(Len(matches))
                              + Len(Group1(text, matches[Len(matches)]))

\* A document with a key inside a tag and outside of it has been translated.
ProtectedInvarianceWitness ==
    /\ Returned("translate")
    /\ \E k \in 1..Len(ProtectedSpans(text)) :
          \E p \in ProtectedSpans(text)[k].from .. ProtectedSpans(text)[k].to :
              text[p] = "a"
    /\ \E p \in 1..Len(text) : p \notin ProtectedPositions(text) /\ text[p] = "a"
    /\ \E p \in 1..Len(result) : result[p] = "b"

---------------------------------------------------------------------------
(* Translatable text (no tag, no comment) under the dictionaries of the    *)
(* tests, their keys inserted in every order.                              *)

\* test_decode.py line 55
GreedyDict ==
    << Pair(<<"b", "c">>, <<"Q">>), Pair(<<"a", "b">>, <<"Y">>),
       Pair(<<"a", "b", "c">>, <<"X">>), Pair(<<"a">>, <<"f">>),
       Pair(<<"b">>, <<"g">>) >>

\* test_decode.py line 51
ChainDict ==
    << Pair(<<"a">>, <<"b">>), Pair(<<"c">>, <<"b">>), Pair(<<"b">>, <<"f">>),
       Pair(<<"d">>, <<"b">>), Pair(<<"e">>, <<"b">>) >>

Orders(d) ==
    { [i \in 1..Len(d) |-> d[f[i]]] :
        f \in { g \in [1..Len(d) -> 1..Len(d)] :
                  \A i, j \in 1..Len(d) : g[i] = g[j] => i = j } }

PlainTexts ==
    Docs({"a", "b", "c"}, MaxPlainLen)
        \cup { <<"a", "b", "c", "a", "b", "c">>, <<"a", "b", "c", "d", "e">> }

InitSubst ==
    \E t \in PlainTexts, d \in Orders(GreedyDict) \cup Orders(ChainDict) :
        Call("translate", t, d, FALSE)

SpecSubst == InitSubst /\ [][NextTranslate]_vars

\* One scan of s from position i that replaces, at each position, the
\* longest key found there literally by its value, moves past the key, and
\* copies a character at which no key starts.
RECURSIVE LongestScan(_, _, _)
LongestScan(s, d, i) ==
    IF i > Len(s) THEN <<>>
    ELSE LET K == { j \in 1..Len(d) :
                      /\ Len(d[j].k) > 0
                      /\ i + Len(d[j].k) - 1 <= Len(s)
                      /\ Slice(s, i, i + Len(d[j].k)) = d[j].k }
         IN  IF K = {} THEN <<s[i]>> \o LongestScan(s, d, i + 1)
             ELSE LET j == CHOOSE j \in K : \A h \in K : Len(d[j].k) >= Len(d[h].k)
                  IN  d[j].v \o LongestScan(s, d, i + Len(d[j].k))

SameDict(d, e) == { d[i] : i \in 1..Len(d) } = { e[i] : i \in 1..Len(e) }

\* C3: on translatable text, whatever the insertion order of the keys,
\* translate returns what one left-to-right scan returns that replaces the
\* longest key at each position and never reads a replacement again; so
\* 'abcabc' becomes 'XX' and 'abcde' becomes 'bfbbb'.
LeftmostLongest ==
    (fn = "translate" /\ pc # "call") =>
        /\ pc = "return"
        /\ result = LongestScan(text, transdict, 1)
        /\ (text = <<"a", "b", "c", "a", "b", "c">> /\ SameDict(transdict, GreedyDict)
              => result = <<"X", "X">>)
        /\ (text = <<"a", "b", "c", "d", "e">> /\ SameDict(transdict, ChainDict)
              => result = <<"b", "f", "b", "b", "b">>)

\* 'abcabc' has been translated with the shortest keys inserted first.
LeftmostLongestWitness ==
    /\ Returned("translate")
    /\ text = <<"a", "b", "c", "a", "b", "c">>
    /\ Len(transdict) = 5
    /\ Len(transdict[1].k) = 1
    /\ Len(transdict[5].k) = 3
    /\ result = <<"X", "X">>

---------------------------------------------------------------------------
(* Dictionaries whose keys hold characters the pattern language reads.     *)

KeyAlphabet == {"a", Wild, OpenParen}

LiteralKeys == Docs(KeyAlphabet, MaxKeyLen) \ {<<>>}

LiteralDicts ==
    { << Pair(k, <<"x">>) >> : k \in LiteralKeys }
        \cup { << Pair(<<"a">>, <<"y">>), Pair(k, <<"x">>) >> : k \in LiteralKeys \ {<<"a">>} }

InitLiteral ==
    \E t \in Docs(KeyAlphabet \cup {"\n", "<", ">"}, MaxLitLen), d \in LiteralDicts :
        Call("translate", t, d, FALSE)

SpecLiteral == InitLiteral /\ [][NextTranslate]_vars

\* C4 (as claimed): translate returns, never raises, and its output is the
\* one of matching the keys as literal text in the translatable pieces.
LiteralTotal ==
    (fn = "translate" /\ pc # "call") =>
        /\ pc = "return"
        /\ result = Concat([k \in 1..Len(matches) |->
                              LongestScan(Group0(text, matches[k]), transdict, 1)
                                  \o Group1(text, matches[k])])

---------------------------------------------------------------------------
(* get_dictionary, lines 63-99.  The texts of the model hold no backslash, *)
(* so the un-escaping of lines 77-78 finds nothing to replace.             *)

kv_delimiter == "/"

comment_delimiter == "#"

Whitespace == {" ", "\t", "\n"}

\* str.splitlines(): the lines without their terminators; a terminator at
\* the end of the text starts no further line.
RECURSIVE SplitLinesFrom(_, _)
SplitLinesFrom(s, i) ==
    IF i > Len(s) THEN <<>>
    ELSE LET n == Find(s, "\n", i)
         IN  IF n = 0 THEN << Slice(s, i, Len(s) + 1) >>
             ELSE << Slice(s, i, n) >> \o SplitLinesFrom(s, n + 1)

SplitLines(s) == SplitLinesFrom(s, 1)

\* str.split(c): the parts between the occurrences of c, one more than there
\* are occurrences.
RECURSIVE SplitFrom(_, _, _)
SplitFrom(s, c, i) ==
    LET n == Find(s, c, i)
    IN  IF n = 0 THEN << Slice(s, i, Len(s) + 1) >>
        ELSE << Slice(s, i, n) >> \o SplitFrom(s, c, n + 1)

Split(s, c) == SplitFrom(s, c, 1)

\* str.strip()
Strip(s) ==
    LET P == { p \in 1..Len(s) : s[p] \notin Whitespace }
    IN  IF P = {} THEN <<>> ELSE Slice(s, Min(P), Max(P) + 1)

\* d[k] = v: a key already present keeps its place.
DictSet(d, k, v) ==
    IF \E i \in 1..Len(d) : d[i].k = k
    THEN [i \in 1..Len(d) |-> IF d[i].k = k THEN Pair(k, v) ELSE d[i]]
    ELSE Append(d, Pair(k, v))

\* Line 85: the line holds the delimiter and does not start with "#".
LineTaken(line) ==
    /\ \E p \in 1..Len(line) : line[p] = kv_delimiter
    /\ line[1] # comment_delimiter

\* Lines 84-87: the loop over the lines, d being the dictionary so far.  The
\* unpacking of line 86 raises ValueError unless the split gives two parts.
RECURSIVE ParseLines(_, _)
ParseLines(lines, d) ==
    IF lines = <<>> THEN Ok(d)
    ELSE IF ~LineTaken(Head(lines)) THEN ParseLines(Tail(lines), d)
    ELSE LET parts == Split(Split(Head(lines), comment_delimiter)[1], kv_delimiter)
         IN  IF Len(parts) > 2 THEN Raise("ValueError: too many values to unpack")
             ELSE IF Len(parts) < 2 THEN Raise("ValueError: not enough values to unpack")
             ELSE ParseLines(Tail(lines), DictSet(d, Strip(parts[1]), Strip(parts[2])))

\* Line 97: {v: k for k, v in d.items()}
RECURSIVE Reversed(_, _)
Reversed(d, acc) ==
    IF d = <<>> THEN acc ELSE Reversed(Tail(d), DictSet(acc, Head(d).v, Head(d).k))

NoPairsFound == "ValueError: no key-value pairs found"

\* get_dictionary(dict_data, reverse)
GetDictionaryOp(s, rev) ==
    LET r == ParseLines(SplitLines(s), NoDict)
    IN  IF ~r.ok THEN r
        ELSE IF Len(r.v) = 0 THEN Raise(NoPairsFound)
        ELSE IF rev THEN Ok(Reversed(r.v, NoDict))
        ELSE r

GetDictionary ==
    /\ fn = "get_dictionary"
    /\ pc = "call"
    /\ Finish(GetDictionaryOp(text, reverse))
    /\ UNCHANGED <<fn, text, transdict, reverse, matches, lhs, rhs>>

DictAlphabet == {"a", "b", kv_delimiter, comment_delimiter, " ", "\n"}

InitDict ==
    \E t \in Docs(DictAlphabet, MaxDictLen), r \in BOOLEAN :
        Call("get_dictionary", t, NoDict, r)

NextDict == GetDictionary

SpecDict == InitDict /\ [][NextDict]_vars

\* The valid lines of the claim: with a "/" and not starting with "#".
ValidLines(s) ==
    { i \in 1..Len(SplitLines(s)) :
        LET line == SplitLines(s)[i]
        IN  /\ \E p \in 1..Len(line) : line[p] = "/"
            /\ line[1] # "#" }

\* C5 (as claimed): get_dictionary fails with the 'no key-value pairs found'
\* error exactly when the text has no valid line, and with a valid line it
\* does not fail and returns a non-empty mapping.
FailsIffNoValidLine ==
    (fn = "get_dictionary" /\ pc # "call") =>
        /\ (pc = "raise" /\ err = NoPairsFound) <=> ValidLines(text) = {}
        /\ ValidLines(text) # {} => (pc = "return" /\ Len(result) > 0)

\* C6 (as claimed): no key of the mapping returned is the empty string.
KeysNonEmpty ==
    Returned("get_dictionary") => \A i \in 1..Len(result) : Len(result[i].k) > 0

---------------------------------------------------------------------------
(* remove_comments, lines 130-137: re.sub with '' of the pattern, under    *)
(* re.MULTILINE, made of two alternatives: a line start, spaces and tabs,  *)
(* "#", the rest of the line and its line break; or "#" and the rest of    *)
(* the line.                                                               *)

AtLineStart(s, i) == i = 1 \/ s[i - 1] = "\n"

\* First alternative at position i: the position after the line break, or 0.
\* The run of spaces and tabs is greedy and must be followed by "#", and the
\* line break is required: giving characters back never helps either.
CommentLineEnd(s, i) ==
    IF ~AtLineStart(s, i) THEN 0
    ELSE LET P == { p \in i..Len(s) : s[p] \notin {" ", "\t"} } IN
         IF P = {} \/ s[Min(P)] # "#" THEN 0
         ELSE LET n == Find(s, "\n", Min(P))
              IN  IF n = 0 THEN 0 ELSE n + 1

\* Second alternative at position i: the end of the line, or 0.
CommentTailEnd(s, i) == IF s[i] = "#" THEN CommentEnd(s, i) ELSE 0

\* The end of the match at position i, the first alternative tried first; 0
\* when neither matches.
CommentMatchEnd(s, i) ==
    IF CommentLineEnd(s, i) # 0 THEN CommentLineEnd(s, i) ELSE CommentTailEnd(s, i)

\* re.sub from position i: a match is dropped, any other character copied.
RECURSIVE RemoveCommentsFrom(_, _, _)
RemoveCommentsFrom(s, i, acc) ==
    IF i > Len(s) THEN acc
    ELSE IF CommentMatchEnd(s, i) # 0
    THEN RemoveCommentsFrom(s, CommentMatchEnd(s, i), acc)
    ELSE RemoveCommentsFrom(s, i + 1, Append(acc, s[i]))

\* remove_comments(text)
RemoveCommentsOp(s) == RemoveCommentsFrom(s, 1, <<>>)

RemoveComments ==
    /\ fn = "remove_comments"
    /\ pc = "call"
    /\ Finish(Ok(RemoveCommentsOp(text)))
    /\ UNCHANGED <<fn, text, transdict, reverse, matches, lhs, rhs>>

CommentAlphabet == {"a", "#", " ", "\t", "\n"}

InitComments ==
    \E t \in Docs(CommentAlphabet, MaxCommentLen) :
        Call("remove_comments", t, NoDict, FALSE)

NextComments == RemoveComments

SpecComments == InitComments /\ [][NextComments]_vars

\* The lines of a text, each with its terminator ("\n", or nothing at the
\* end of the text).
RECURSIVE LinesFrom(_, _)
LinesFrom(s, i) ==
    IF i > Len(s) THEN <<>>
    ELSE LET n == Find(s, "\n", i)
         IN  IF n = 0 THEN << [body |-> Slice(s, i, Len(s) + 1), term |-> <<>>] >>
             ELSE << [body |-> Slice(s, i, n), term |-> <<"\n">>] >> \o LinesFrom(s, n + 1)

\* What the claim says becomes of one line.
WithoutComment(line) ==
    LET P == { p \in 1..Len(line.body) : line.body[p] \notin {" ", "\t"} }
        H == { p \in 1..Len(line.body) : line.body[p] = "#" }
    IN  IF P # {} /\ line.body[Min(P)] = "#" THEN <<>>
        ELSE IF H # {} THEN Slice(line.body, 1, Min(H)) \o line.term
        ELSE line.body \o line.term

\* C8 (as claimed): a line whose first character after spaces and tabs is
\* "#" is deleted whole, with or without a terminator; any other line loses
\* what follows its first "#" and keeps its terminator; a text without "#"
\* is unchanged and the result holds no "#".
CommentLinesDeleted ==
    Returned("remove_comments") =>
        /\ result = Concat([k \in 1..Len(LinesFrom(text, 1)) |->
                              WithoutComment(LinesFrom(text, 1)[k])])
        /\ (\A p \in 1..Len(text) : text[p] # "#") => result = text
        /\ \A p \in 1..Len(result) : result[p] # "#"

---------------------------------------------------------------------------
(* The two sides of the assertion of test_decode.py, lines 84-86.          *)

\* remove_comments(translate(text, dictionary))
LeftSide ==
    /\ fn = "commute"
    /\ ~lhs.ok
    /\ lhs' = LET r == TranslateOp(text, transdict)
              IN  IF r.ok THEN Ok(RemoveCommentsOp(r.v)) ELSE r
    /\ pc' = IF rhs.ok THEN "return" ELSE pc
    /\ UNCHANGED <<fn, text, transdict, reverse, matches, result, err, rhs>>

\* translate(remove_comments(text), dictionary)
RightSide ==
    /\ fn = "commute"
    /\ ~rhs.ok
    /\ rhs' = TranslateOp(RemoveCommentsOp(text), transdict)
    /\ pc' = IF lhs.ok THEN "return" ELSE pc
    /\ UNCHANGED <<fn, text, transdict, reverse, matches, result, err, lhs>>

CommuteAlphabet == {"a", "#", "<", ">", "[", "]", "\n"}

InitCommute ==
    \E t \in Docs(CommuteAlphabet, MaxCommuteLen) :
        Call("commute", t, TagsDict, FALSE)

NextCommute == LeftSide \/ RightSide

SpecCommute == InitCommute /\ [][NextCommute]_vars

\* C7 (as claimed): removing the comments of the translation gives the
\* translation of the text without its comments.
CommentsCommute == Returned("commute") => lhs.v = rhs.v

---------------------------------------------------------------------------
(* remove_tags, lines 140-151: re.sub with group 3 of a pattern of two     *)
(* alternatives.  Group 1: "<", spaces, and optionally one of the three    *)
(* markers, an optional space or dash with two upper-case letters, and any *)
(* spaces and dashes; then group 3, up to the first ">", which must be     *)
(* there.  Or: "[", then group 3 up to the first "]", which must be there. *)

Markers ==
    { <<"c", "l", "e", "a", "r", "t", "e", "x", "t">>,
      <<"C", "L", "E", "A", "R", "T", "E", "X", "T">>,
      <<"C", "l", "e", "a", "r", "t", "e", "x", "t">> }

MarkerLen == 9

Upper ==
    {"A", "B", "C", "D", "E", "F", "G", "H", "I", "J", "K", "L", "M",
     "N", "O", "P", "Q", "R", "S", "T", "U", "V", "W", "X", "Y", "Z"}

Padding == {" ", "-"}

\* The position after the longest run of characters of C from position i.
SkipRun(s, i, C) ==
    LET P == { p \in i..Len(s) : s[p] \notin C }
    IN  IF P = {} THEN Len(s) + 1 ELSE Min(P)

StartsWith(s, i, w) == i + Len(w) - 1 <= Len(s) /\ Slice(s, i, i + Len(w)) = w

\* (?:[ -][A-Z]{2})? at position i: the position after it.
LangEnd(s, i) ==
    IF /\ i + 2 <= Len(s)
       /\ s[i] \in Padding
       /\ s[i + 1] \in Upper
       /\ s[i + 2] \in Upper
    THEN i + 3 ELSE i

\* The end of group 1 for a "<" at position i.  Every part is greedy, and
\* none can take a ">", so giving characters back never changes whether the
\* closing ">" is found.
Group1End(s, i) ==
    LET p == SkipRun(s, i + 1, {" "})
    IN  IF \E w \in Markers : StartsWith(s, p, w)
        THEN SkipRun(s, LangEnd(s, p + MarkerLen), Padding)
        ELSE p

\* The match at position i: group 3 is [from, to), the match ends at end.
TagMatch(s, i) ==
    IF s[i] \notin {"<", "["} \/ Find(s, Closer(s[i]), i + 1) = 0
    THEN [ok |-> FALSE, from |-> 0, to |-> 0, end |-> 0]
    ELSE LET c == Find(s, Closer(s[i]), i + 1)
         IN  [ok |-> TRUE, from |-> IF s[i] = "<" THEN Group1End(s, i) ELSE i + 1,
              to |-> c, end |-> c + 1]

\* re.sub from position i: a match is replaced by its group 3, any other
\* character copied.
RECURSIVE RemoveTagsFrom(_, _, _)
RemoveTagsFrom(s, i, acc) ==
    IF i > Len(s) THEN acc
    ELSE LET m == TagMatch(s, i)
         IN  IF m.ok THEN RemoveTagsFrom(s, m.end, acc \o Slice(s, m.from, m.to))
             ELSE RemoveTagsFrom(s, i + 1, Append(acc, s[i]))

\* remove_tags(text)
RemoveTagsOp(s) == RemoveTagsFrom(s, 1, <<>>)

RemoveTags ==
    /\ fn = "remove_tags"
    /\ pc = "call"
    /\ Finish(Ok(RemoveTagsOp(text)))
    /\ UNCHANGED <<fn, text, transdict, reverse, matches, lhs, rhs>>

\* Texts made of a few tokens, and tags '<cleartext' + separator + inner + '>'.
TagTokens ==
    { <<"<">>, <<">">>, <<"[">>, <<"]">>, <<"t">>, <<" ">>, <<"-">>, <<"L", "A">>,
      <<"c", "l", "e", "a", "r", "t", "e", "x", "t">> }

TokenTexts == { Concat(ts) : ts \in Docs(TagTokens, MaxTagTokens) }

InnerTexts == Docs({"L", "A", "t", " "}, MaxInnerLen)

MarkerTag(w, sep, inner) == <<"<">> \o w \o <<sep>> \o inner \o <<">">>

MarkerTexts == { MarkerTag(w, sep, inner) : w \in Markers, sep \in Padding, inner \in InnerTexts }

InitTags ==
    \E t \in TokenTexts \cup MarkerTexts : Call("remove_tags", t, NoDict, FALSE)

NextTags == RemoveTags

SpecTags == InitTags /\ [][NextTags]_vars

Lower ==
    {"a", "b", "c", "d", "e", "f", "g", "h", "i", "j", "k", "l", "m",
     "n", "o", "p", "q", "r", "s", "t", "u", "v", "w", "x", "y", "z"}

Letters == Upper \cup Lower

RECURSIVE DropWhile(_, _)
DropWhile(s, C) == IF s # <<>> /\ Head(s) \in C THEN DropWhile(Tail(s), C) ELSE s

\* A language attribute at the start of b: a space or dash and two
\* upper-case letters; as a whole code, the two letters are not the start of
\* a longer word.
LanguageAttribute(b, whole) ==
    /\ Len(b) >= 3
    /\ b[1] \in Padding
    /\ b[2] \in Upper
    /\ b[3] \in Upper
    /\ whole => (Len(b) = 3 \/ b[4] \notin Letters)

\* The inner text of a "<" tag without the marker that may open it: spaces,
\* then, if a marker follows, the marker, its language attribute and the
\* spaces and dashes after it.
WithoutMarker(inner, whole) ==
    LET a == DropWhile(inner, {" "})
    IN  IF Len(a) >= MarkerLen /\ SubSeq(a, 1, MarkerLen) \in Markers
        THEN LET b == SubSeq(a, MarkerLen + 1, Len(a))
                 c == IF LanguageAttribute(b, whole) THEN SubSeq(b, 4, Len(b)) ELSE b
             IN  DropWhile(c, Padding)
        ELSE a

\* What the claim says of a text read from the left: a bracket with a
\* closing partner after it goes, with its partner, and leaves its inner
\* text; anything else stays.
RECURSIVE Unwrapped(_, _)
Unwrapped(s, whole) ==
    IF s = <<>> THEN <<>>
    ELSE IF Head(s) = "[" /\ \E q \in 2..Len(s) : s[q] = "]"
    THEN LET q == Min({ q \in 2..Len(s) : s[q] = "]" })
         IN  SubSeq(s, 2, q - 1) \o Unwrapped(SubSeq(s, q + 1, Len(s)), whole)
    ELSE IF Head(s) = "<" /\ \E q \in 2..Len(s) : s[q] = ">"
    THEN LET q == Min({ q \in 2..Len(s) : s[q] = ">" })
         IN  WithoutMarker(SubSeq(s, 2, q - 1), whole)
                 \o Unwrapped(SubSeq(s, q + 1, Len(s)), whole)
    ELSE <<Head(s)>> \o Unwrapped(Tail(s), whole)

HasNo(s, C) == \A p \in 1..Len(s) : s[p] \notin C

\* C9 (as claimed): remove_tags unwraps the tags of a text read from the
\* left, without nesting: a bracket with a closing partner goes with the
\* first such partner and leaves its inner text (a "<" tag's without its
\* marker, the marker's language code and the padding), the text outside the
\* tags is unchanged and a bracket without a partner stays.
TagsUnwrapped ==
    Returned("remove_tags") =>
        /\ result = Unwrapped(text, TRUE)
        /\ HasNo(text, {"<", "["}) => result = text
        /\ HasNo(text, {">", "]"}) => result = text

\* The pairing of the brackets is as C9 says: with the language attribute
\* taken as the pattern takes it, any two upper-case letters after the
\* separator, remove_tags returns the unwrapped text.
TagsUnwrappedAsRead ==
    Returned("remove_tags") => result = Unwrapped(text, FALSE)

\* The inner text starts with a letter and, if with two upper-case letters,
\* then with a third letter: plain text, no language code.
PlainInner(inner) ==
    /\ Len(inner) > 0
    /\ inner[1] \in Letters
    /\ ~(/\ Len(inner) >= 2
         /\ inner[1] \in Upper
         /\ inner[2] \in Upper
         /\ (Len(inner) = 2 \/ inner[3] \notin Letters))

\* C10 (as claimed): of a tag '<cleartext' + separator + inner + '>' whose
\* inner text is plain, the whole inner text is returned.
NoOverMatch ==
    Returned("remove_tags") =>
        \A w \in Markers, sep \in Padding, inner \in InnerTexts :
            (text = MarkerTag(w, sep, inner) /\ PlainInner(inner)) => result = inner

---------------------------------------------------------------------------
(* Tags and line breaks in translate: documents of up to MaxLinesLen       *)
(* characters under the dictionary of the tags test.                        *)

MaxLinesLen == 5

InitLines ==
    \E t \in Docs(DocAlphabet, MaxLinesLen) : Call("translate", t, TagsDict, FALSE)

NextLines == Translate

SpecLines == InitLines /\ [][NextLines]_vars

\* The closing bracket of the opening bracket at position i on the line of
\* i, or 0.
CloserOnLine(s, i) ==
    LET Q == { q \in i+1..Len(s) : /\ s[q] = Closer(s[i])
                                    /\ \A r \in i..q : s[r] # "\n" }
    IN  IF Q = {} THEN 0 ELSE Min(Q)

\* The protected spans of a document read from the left when a tag has to
\* close on the line it starts on: a bracket whose closing partner is not
\* on its line is plain text, and the reading goes on behind it.
RECURSIVE LineSpansFrom(_, _)
LineSpansFrom(s, i) ==
    IF i > Len(s) THEN <<>>
    ELSE IF s[i] \in {"<", "["} /\ CloserOnLine(s, i) # 0
    THEN << [from |-> i, to |-> CloserOnLine(s, i)] >>
             \o LineSpansFrom(s, CloserOnLine(s, i) + 1)
    ELSE IF s[i] = "#"
    THEN LET q == Max({ q \in i..Len(s) : \A r \in i..q : s[r] # "\n" })
         IN  << [from |-> i, to |-> q] >> \o LineSpansFrom(s, q + 1)
    ELSE LineSpansFrom(s, i + 1)

LinePositions(s) ==
    UNION { LineSpansFrom(s, 1)[k].from .. LineSpansFrom(s, 1)[k].to :
              k \in 1..Len(LineSpansFrom(s, 1)) }

\* The positions of the document that fall in group 1 of a match.
Group0Positions == UNION { matches[k].start .. matches[k].mid - 1 : k \in 1..Len(matches) }

Count(s, c) == Cardinality({ p \in 1..Len(s) : s[p] = c })

\* translate has protected the positions P of the document and nothing
\* else: they are copied, a bracket outside of P is not, every key "a"
\* behind such a bracket and outside of P is in translatable text, and the
\* output holds a "b" for every "a" outside of P and an "a" for every "a"
\* in P.
ProtectedAre(P) ==
    /\ \A p \in P : p \in Group1Positions
    /\ \A p \in 1..Len(text) :
          (text[p] \in {"<", "["} /\ p \notin P) =>
              /\ p \notin Group1Positions
              /\ \A r \in p+1..Len(text) :
                    (text[r] = "a" /\ r \notin P) => r \in Group0Positions
    /\ Count(result, "b") = Cardinality({ p \in 1..Len(text) : text[p] = "a" /\ p \notin P })
    /\ Count(result, "a") = Cardinality({ p \in 1..Len(text) : text[p] = "a" /\ p \in P })

\* C11 (as claimed): a tag is protected only when it closes on the line it
\* starts on; a bracket whose closing partner is not on its line is not
\* protected, and the keys behind it, on its line and on the following
\* lines, are substituted.
TagsCloseOnLine ==
    Returned("translate") => ProtectedAre(LinePositions(text))

\* C11 (amended): a tag is protected wherever it closes, on its line or on
\* a later one: a bracket with a closing partner anywhere behind it is
\* copied with everything up to the first such partner, line breaks and the
\* keys between them included.  Only a bracket with no closing partner in
\* the rest of the document is not protected, and the keys behind it are
\* substituted.
TagsCloseAnywhere ==
    Returned("translate") =>
        /\ ProtectedAre(ProtectedPositions(text))
        /\ \A p \in 1..Len(text) :
              (text[p] \in {"<", "["} /\ p \notin ProtectedPositions(text))
                  => Find(text, Closer(text[p]), p + 1) = 0

\* The example of the claim: the tag closes on the next line and is
\* returned as it is, its keys included.
TagsCloseAnywhereWitness ==
    /\ Returned("translate")
    /\ text = <<"<", "a", "\n", "a", ">">>
    /\ result = text

===========================================================================
